---- MODULE Spec2Model ----
(***************************************************************************)
(* Model of the order-book engine of jackkellerk/order_book.               *)
(*                                                                         *)
(* The state is one full-depth OrderBook (order_book.py) together with the *)
(* OrderNode objects it can reach.  Nodes are heap objects: `heap' is the   *)
(* sequence of the live nodes in allocation order, a node's address is its *)
(* index in that sequence, and prev/next/head/tail and the values of the   *)
(* id index are addresses (Null for Python's None).  Every operation of    *)
(* the book is an operator from a book and a message to the book the call  *)
(* leaves behind and whether the call raised, so that a call that raises   *)
(* half way leaves exactly the mutations the code has made by then.        *)
(***************************************************************************)
EXTENDS Integers, Sequences, FiniteSets, TLC

(***************************************************************************)
(* Bounds of the model.                                                    *)
(***************************************************************************)
MaxSize == 2         \* message sizes are 0..MaxSize
MaxTs == 1           \* ts_recv values are 1..MaxTs
WideOrderId == 2     \* the wide feed: order ids 1..WideOrderId, two prices,
WideNodes == 2       \*   at most WideNodes OrderNode objects live after a call
DeepOrderId == 3     \* the deep feed: order ids 1..DeepOrderId, one price,
DeepNodes == 3       \*   at most DeepNodes OrderNode objects live after a call
MaxZeroModify == 1   \* at most MaxZeroModify calls of _modify shrink an order to size 0
MaxPublisher == 1    \* the market feed: publisher ids 0..MaxPublisher,
MaxInstrument == 2   \*   instrument ids 1..MaxInstrument (few records above the first),
MarketOrderId == 1   \*   order ids 1..MarketOrderId, sizes 0..MarketSize,
MarketSize == 1
MarketNodes == 1     \*   at most MarketNodes OrderNode objects live in a book after a call

(***************************************************************************)
(* Program constants.                                                      *)
(***************************************************************************)
F_TOB == 64
F_LAST == 128
FIXED_PRICE_SCALE == 1000000000
\* databento's UNDEF_PRICE is 2^63 - 1; the largest integer of the checker
\* stands for it (no price of the model reaches it).
UNDEF_PRICE == 2147483647

Null == 0            \* None as a node reference
NoPrice == -1        \* None as BestBidOffer.price
NoPublisher == -1    \* None as the publisher_id argument of Market.bbo

Sizes == 0..MaxSize
Timestamps == 1..MaxTs
Sides == {"A", "B", "N"}
Actions == {"A", "C", "M", "R", "T", "F", "N", "X"}   \* "X": a code outside the alphabet
ThePublisher == 1
TheInstrument == 1

\* The two bounded feeds a run draws its records from.  Wire prices are
\* fixed-point integers scaled by FIXED_PRICE_SCALE, or the sentinel.
Feeds == {"wide", "deep"}
OrderIds(f) == IF f = "wide" THEN 1..WideOrderId ELSE 1..DeepOrderId
RawPrices(f) ==
    IF f = "wide" THEN {FIXED_PRICE_SCALE, 2 * FIXED_PRICE_SCALE, UNDEF_PRICE}
    ELSE {FIXED_PRICE_SCALE, UNDEF_PRICE}
MaxNodes(f) == IF f = "wide" THEN WideNodes ELSE DeepNodes

HasFlag(flags, bit) == (flags \div bit) % 2 = 1

(***************************************************************************)
(* message.py                                                              *)
(***************************************************************************)
\* The records of the feed.  A record carries the fields its action uses: an
\* add or a modify names side, order, price and size, a cancel names the order
\* and the size to take off, and the other actions name no order.
MBO(actions, sides, ids, prices, sizes, flagsets) ==
    [action : actions, side : sides, order_id : ids, price : prices,
     size : sizes, publisher_id : {ThePublisher}, instrument_id : {TheInstrument},
     ts_event : {0}, ts_recv : Timestamps, flags : flagsets]

MBOMsgs(f) ==
    MBO({"A", "M"}, Sides, OrderIds(f), RawPrices(f), Sizes, {F_LAST})
      \cup MBO({"C"}, {"N"}, OrderIds(f), {UNDEF_PRICE}, Sizes, {F_LAST})
      \cup MBO({"R", "T", "F", "N", "X"}, {"N"}, {0}, {UNDEF_PRICE}, {0}, {F_LAST})
      \cup MBO(Actions, {"B"}, {1}, {FIXED_PRICE_SCALE}, {1}, {F_TOB + F_LAST})

Message(raw) ==
    [action |-> raw.action,
     order_id |-> raw.order_id,
     size |-> raw.size,
     publisher_id |-> raw.publisher_id,
     instrument_id |-> raw.instrument_id,
     ts_event |-> raw.ts_event,
     side |-> raw.side,
     ts_recv |-> raw.ts_recv,
     flags |-> raw.flags,
     price |-> IF raw.price = UNDEF_PRICE THEN raw.price
               ELSE raw.price \div FIXED_PRICE_SCALE]

(***************************************************************************)
(* order_linked_list.py                                                    *)
(***************************************************************************)
OrderNode(msg, prev) ==
    [order_id |-> msg.order_id, price |-> msg.price, size |-> msg.size,
     publisher_id |-> msg.publisher_id, instrument_id |-> msg.instrument_id,
     side |-> msg.side, ts_recv |-> msg.ts_recv, prev |-> prev, next |-> Null]

OrderLinkedList(price) ==
    [price |-> price, depth |-> 0, num_orders |-> 0, head |-> Null, tail |-> Null]

Ok(b) == [b |-> b, raised |-> FALSE]
Raise(b) == [b |-> b, raised |-> TRUE]

\* OrderBook._side_dict for a side it accepts; ValidSide is its else branch
ValidSide(side) == side \in {"A", "B"}
side_dict(b, side) == IF side = "A" THEN b.offers ELSE b.bids
SetSide(b, side, tree) ==
    IF side = "A" THEN [b EXCEPT !.offers = tree] ELSE [b EXCEPT !.bids = tree]

\* The scalar fields of the dataclass, in declaration order.
ScalarsEq(x, y) ==
    /\ x.order_id = y.order_id
    /\ x.price = y.price
    /\ x.size = y.size
    /\ x.publisher_id = y.publisher_id
    /\ x.instrument_id = y.instrument_id
    /\ x.side = y.side
    /\ x.ts_recv = y.ts_recv

\* The generated OrderNode.__eq__ on two distinct nodes: the field tuples are
\* compared left to right, an item pair that is the same object (or None twice)
\* is equal without a call, a node against None is unequal, and two distinct
\* nodes recurse.  "T", "F", or "R" for a RecursionError (the recursion never
\* ends: more frames than there are pairs of nodes).
RECURSIVE DataclassEq(_, _, _, _)
DataclassEq(heap, a, b, fuel) ==
    IF fuel = 0 THEN "R"
    ELSE IF ~ScalarsEq(heap[a], heap[b]) THEN "F"
    ELSE LET pa == heap[a].prev
             pb == heap[b].prev
             na == heap[a].next
             nb == heap[b].next
             p == IF pa = pb THEN "T"
                  ELSE IF pa = Null \/ pb = Null THEN "F"
                  ELSE DataclassEq(heap, pa, pb, fuel - 1)
         IN IF p # "T" THEN p
            ELSE IF na = nb THEN "T"
            ELSE IF na = Null \/ nb = Null THEN "F"
            ELSE DataclassEq(heap, na, nb, fuel - 1)

\* `order_node == other' as remove() evaluates it; other may be None.
NodeEq(heap, a, other) ==
    IF other = Null THEN "F"
    ELSE IF a = other THEN "T"
    ELSE DataclassEq(heap, a, other, Len(heap) * Len(heap) + 1)

\* OrderLinkedList.append on the list at tree[price] of `side'.
append(b, side, price, msg) ==
    LET tree == side_dict(b, side)
        lst == tree[price]
        addr == Len(b.heap) + 1
        node == OrderNode(msg, lst.tail)
        heap1 == IF lst.tail # Null THEN [b.heap EXCEPT ![lst.tail].next = addr]
                 ELSE b.heap
        lst1 == [lst EXCEPT !.num_orders = @ + 1,
                            !.depth = @ + msg.size,
                            !.head = IF @ = Null THEN addr ELSE @,
                            !.tail = addr]
    IN [b |-> SetSide([b EXCEPT !.heap = Append(heap1, node)], side,
                      [tree EXCEPT ![price] = lst1]),
        node |-> addr]

\* The book with heap h and with list l stored at tree[price] of `side'.
store(b, side, price, l, h) ==
    SetSide([b EXCEPT !.heap = h], side, [side_dict(b, side) EXCEPT ![price] = l])

\* Lines 96-99: the neighbours of the node are joined to each other; the
\* node's own prev and next are left as they were.
join_next(heap, addr) ==
    IF heap[addr].next # Null
    THEN [heap EXCEPT ![heap[addr].next].prev = heap[addr].prev]
    ELSE heap

join_neighbours(heap, addr) ==
    join_next(IF heap[addr].prev # Null
              THEN [heap EXCEPT ![heap[addr].prev].next = heap[addr].next]
              ELSE heap,
              addr)

\* Lines 90-99, e2 being the outcome of `order_node == self._tail'.
unlink_tail(b, side, price, addr, lst, e2) ==
    IF e2 = "R" THEN Raise(store(b, side, price, lst, b.heap))
    ELSE Ok(store(b, side, price,
                  IF e2 = "T"
                  THEN [lst EXCEPT !.tail = IF b.heap[addr].next # Null
                                            THEN b.heap[addr].next
                                            ELSE b.heap[addr].prev]
                  ELSE lst,
                  join_neighbours(b.heap, addr)))

\* Lines 88-89 done: lst is the list with its head settled.
unlink_from_head(b, side, price, addr, lst) ==
    unlink_tail(b, side, price, addr, lst, NodeEq(b.heap, addr, lst.tail))

\* Lines 88-99, e1 being the outcome of `order_node == self._head'.
unlink_head(b, side, price, addr, lst, e1) ==
    IF e1 = "R" THEN Raise(store(b, side, price, lst, b.heap))
    ELSE unlink_from_head(b, side, price, addr,
                          IF e1 = "T" THEN [lst EXCEPT !.head = b.heap[addr].next]
                          ELSE lst)

\* Line 86 done: lst is the list with _num_orders decremented.
unlink_counted(b, side, price, addr, lst) ==
    unlink_head(b, side, price, addr, lst, NodeEq(b.heap, addr, lst.head))

\* The unlinking branch of OrderLinkedList.remove (order_node.size == 0).
unlink(b, side, price, addr) ==
    unlink_counted(b, side, price, addr,
                   [side_dict(b, side)[price] EXCEPT !.num_orders = @ - 1])

\* Lines 85-99: the node is unlinked when the decrement left it no size.
unlink_if_empty(b, side, price, addr) ==
    IF b.heap[addr].size = 0 THEN unlink(b, side, price, addr) ELSE Ok(b)

\* OrderLinkedList.remove on the list at tree[price] of `side'.
remove(b, side, price, addr, amount) ==
    IF amount > b.heap[addr].size THEN Raise(b)
    ELSE unlink_if_empty(SetSide([b EXCEPT !.heap[addr].size = @ - amount], side,
                                 [side_dict(b, side) EXCEPT ![price].depth = @ - amount]),
                         side, price, addr)

(***************************************************************************)
(* order_book.py: OrderBook                                                *)
(***************************************************************************)
Empty == [x \in {} |-> Null]

OrderBook ==
    [heap |-> << >>, orders |-> Empty, bids |-> Empty, offers |-> Empty,
     ts_last_update |-> 0]

Without(f, k) == [x \in DOMAIN f \ {k} |-> f[x]]

\* _clear that forgets to reset the id index.
clear_KeepsIndex(b) == [b EXCEPT !.bids = Empty, !.offers = Empty]

clear(b) == [b EXCEPT !.orders = Empty, !.bids = Empty, !.offers = Empty]

\* Line 83: the node append() returned is registered under the order id.
add_index(r, msg) == Ok([r.b EXCEPT !.orders = (msg.order_id :> r.node) @@ @])

\* Lines 75-76: the level is created when the price is new to the side.
add_level(b, msg) ==
    IF msg.price \notin DOMAIN side_dict(b, msg.side)
    THEN SetSide(b, msg.side,
                 (msg.price :> OrderLinkedList(msg.price)) @@ side_dict(b, msg.side))
    ELSE b

\* An add that does not look the order id up in the index first.
add_NoIdCheck(b, msg) ==
    IF msg.price = UNDEF_PRICE THEN Raise(b)
    ELSE IF ~ValidSide(msg.side) THEN Raise(b)
    ELSE add_index(append(add_level(b, msg), msg.side, msg.price, msg), msg)

add(b, msg) ==
    IF msg.order_id \in DOMAIN b.orders THEN Raise(b)
    ELSE IF msg.price = UNDEF_PRICE THEN Raise(b)
    ELSE IF ~ValidSide(msg.side) THEN Raise(b)
    ELSE add_index(append(add_level(b, msg), msg.side, msg.price, msg), msg)

\* Lines 114-116 and 151: the node's ts_recv is updated.
touch(b, msg, addr) == Ok([b EXCEPT !.heap[addr].ts_recv = msg.ts_recv])

\* Lines 110-112, the id already deleted from the index: len(order_list)
\* raises ValueError when _num_orders is negative.
cancel_level(b, side, price) ==
    IF side_dict(b, side)[price].num_orders < 0 THEN Raise(b)
    ELSE IF side_dict(b, side)[price].num_orders = 0
    THEN Ok(SetSide(b, side, Without(side_dict(b, side), price)))
    ELSE Ok(b)

\* Lines 106-116, r being what order_list.remove left.
cancel_removed(r, msg, addr, side, price) ==
    IF r.raised THEN r
    ELSE IF r.b.heap[addr].size = 0
    THEN cancel_level([r.b EXCEPT !.orders = Without(@, msg.order_id)], side, price)
    ELSE touch(r.b, msg, addr)

\* Lines 99-116, the node found in the index.
cancel_node(b, msg, addr, side, price) ==
    IF ~ValidSide(side) THEN Raise(b)
    ELSE IF price \notin DOMAIN side_dict(b, side) THEN Raise(b)
    ELSE cancel_removed(remove(b, side, price, addr, msg.size), msg, addr, side, price)

cancel(b, msg) ==
    IF msg.order_id \notin DOMAIN b.orders THEN Raise(b)
    ELSE cancel_node(b, msg, b.orders[msg.order_id],
                     b.heap[b.orders[msg.order_id]].side,
                     b.heap[b.orders[msg.order_id]].price)

\* Lines 138-139 and 143-144: self._add(msg) runs when self._cancel(msg) returned.
modify_add(c, msg) == IF c.raised THEN c ELSE add(c.b, msg)

\* Line 151, r being what order_list.remove left.
modify_removed(r, msg, addr) == IF r.raised THEN r ELSE touch(r.b, msg, addr)

\* Lines 130-151, the node found in the index.
modify_node(b, msg, addr, node) ==
    IF ~ValidSide(node.side) THEN Raise(b)
    ELSE IF node.price \notin DOMAIN side_dict(b, node.side) THEN Raise(b)
    ELSE IF node.side # msg.side THEN Raise(b)
    ELSE IF msg.price # node.price \/ msg.size > node.size
    THEN modify_add(cancel(b, msg), msg)
    ELSE modify_removed(remove(b, node.side, node.price, addr, node.size - msg.size),
                        msg, addr)

modify(b, msg) ==
    IF msg.order_id \notin DOMAIN b.orders THEN Raise(b)
    ELSE modify_node(b, msg, b.orders[msg.order_id], b.heap[b.orders[msg.order_id]])

\* Line 191: ts_last_update is saved when the action returned.
apply_saved(r, msg) ==
    IF r.raised THEN r ELSE Ok([r.b EXCEPT !.ts_last_update = msg.ts_recv])

\* apply that treats a trade, fill or none as a clear.
apply_NoOpClears(b, msg) ==
    IF HasFlag(msg.flags, F_TOB) THEN Raise(b)
    ELSE apply_saved(CASE msg.action \in {"T", "F", "N", "R"} -> Ok(clear(b))
                       [] msg.action = "A" -> add(b, msg)
                       [] msg.action = "C" -> cancel(b, msg)
                       [] msg.action = "M" -> modify(b, msg)
                       [] OTHER -> Raise(b),
                     msg)

apply(b, msg) ==
    IF HasFlag(msg.flags, F_TOB) THEN Raise(b)
    ELSE apply_saved(CASE msg.action \in {"T", "F", "N"} -> Ok(b)
                       [] msg.action = "R" -> Ok(clear(b))
                       [] msg.action = "A" -> add(b, msg)
                       [] msg.action = "C" -> cancel(b, msg)
                       [] msg.action = "M" -> modify(b, msg)
                       [] OTHER -> Raise(b),
                     msg)

BestBidOffer(size, price) == [size |-> size, price |-> price]

MaxOf(S) == CHOOSE x \in S : \A y \in S : y <= x
MinOf(S) == CHOOSE x \in S : \A y \in S : x <= y

\* OrderBook.bbo: peekitem(-1) of bids, peekitem(0) of offers
bbo(b) ==
    [best_bid |-> IF DOMAIN b.bids # {}
                  THEN LET l == b.bids[MaxOf(DOMAIN b.bids)]
                       IN BestBidOffer(l.depth, l.price)
                  ELSE BestBidOffer(0, NoPrice),
     best_offer |-> IF DOMAIN b.offers # {}
                    THEN LET l == b.offers[MinOf(DOMAIN b.offers)]
                         IN BestBidOffer(l.depth, l.price)
                    ELSE BestBidOffer(0, NoPrice)]

(***************************************************************************)
(* Object lifetime.  A node the book can no longer reach (from the id      *)
(* index, a head or a tail, through prev/next) is never read again; the    *)
(* live nodes keep their allocation order, so an address is the node's     *)
(* rank by age among the live nodes.                                       *)
(***************************************************************************)
Levels(b) == {b.bids[p] : p \in DOMAIN b.bids} \cup {b.offers[p] : p \in DOMAIN b.offers}

Roots(b) ==
    ({b.orders[i] : i \in DOMAIN b.orders}
       \cup {l.head : l \in Levels(b)} \cup {l.tail : l \in Levels(b)}) \ {Null}

RECURSIVE Closure(_, _)
Closure(heap, S) ==
    LET T == (S \cup {heap[a].prev : a \in S} \cup {heap[a].next : a \in S}) \ {Null}
    IN IF T = S THEN S ELSE Closure(heap, T)

Live(b) == Closure(b.heap, Roots(b))

\* The book with the nodes of `live' renumbered by age and the others dropped.
Renumber(b, live) ==
    LET rank(a) == IF a = Null THEN Null ELSE Cardinality({x \in live : x <= a})
        addrOf(k) == CHOOSE a \in live : rank(a) = k
        level(l) == [l EXCEPT !.head = rank(@), !.tail = rank(@)]
    IN [heap |-> [k \in 1..Cardinality(live) |->
                     [b.heap[addrOf(k)] EXCEPT !.prev = rank(@), !.next = rank(@)]],
        orders |-> [i \in DOMAIN b.orders |-> rank(b.orders[i])],
        bids |-> [p \in DOMAIN b.bids |-> level(b.bids[p])],
        offers |-> [p \in DOMAIN b.offers |-> level(b.offers[p])],
        ts_last_update |-> b.ts_last_update]

Compact(b) == Renumber(b, Live(b))

(***************************************************************************)
(* order_book.py: TopOfBookOrderBook.  A slot (bid, offer) is the set of   *)
(* the nodes it holds: {} for None, a singleton otherwise.                 *)
(***************************************************************************)
TopOfBookOrderBook == [bid |-> {}, offer |-> {}, ts_last_update |-> 0]

tob_clear(t) == [t EXCEPT !.bid = {}, !.offer = {}]

\* Lines 291-302: a blank side gives None, anything else a fresh node.
tob_node(msg) ==
    IF msg.size = 0 /\ msg.price = UNDEF_PRICE THEN {} ELSE {OrderNode(msg, Null)}

\* Lines 304-307: the bid slot for side "B", the offer slot for any other side.
tob_set(t, msg) ==
    IF msg.side = "B" THEN [t EXCEPT !.bid = tob_node(msg)]
    ELSE [t EXCEPT !.offer = tob_node(msg)]

\* The pairing step that empties the other slot whatever the flags are.
tob_pair_AlwaysWipes(t, msg) ==
    IF msg.side = "B" THEN [t EXCEPT !.offer = {}] ELSE [t EXCEPT !.bid = {}]

\* Lines 311-315: without F_LAST the other slot is emptied.
tob_pair(t, msg) ==
    IF HasFlag(msg.flags, F_LAST) THEN t
    ELSE IF msg.side = "B" THEN [t EXCEPT !.offer = {}]
    ELSE [t EXCEPT !.bid = {}]

tob_add(t, msg) ==
    [tob_pair(tob_set(t, msg), msg) EXCEPT !.ts_last_update = msg.ts_recv]

\* A top-of-book apply that ignores a fill as the full-depth book does.
tob_apply_FillIgnored(t, msg) ==
    apply_saved(CASE msg.action \in {"T", "F", "N"} -> Ok(t)
                  [] msg.action = "R" -> Ok(tob_clear(t))
                  [] msg.action = "A" ->
                       IF ~HasFlag(msg.flags, F_TOB) THEN Raise(t) ELSE Ok(tob_add(t, msg))
                  [] OTHER -> Raise(t),
                msg)

tob_apply(t, msg) ==
    apply_saved(CASE msg.action \in {"T", "N"} -> Ok(t)
                  [] msg.action = "R" -> Ok(tob_clear(t))
                  [] msg.action = "A" ->
                       IF ~HasFlag(msg.flags, F_TOB) THEN Raise(t) ELSE Ok(tob_add(t, msg))
                  [] OTHER -> Raise(t),
                msg)

\* The slot's quote: BestBidOffer() for None (a node object is always true).
tob_quote(slot) ==
    IF slot = {} THEN BestBidOffer(0, NoPrice)
    ELSE LET n == CHOOSE x \in slot : TRUE IN BestBidOffer(n.size, n.price)

tob_bbo(t) == [best_bid |-> tob_quote(t.bid), best_offer |-> tob_quote(t.offer)]

(***************************************************************************)
(* market.py.  A registered book is an entry: its class (kind), the        *)
(* instrument and publisher it was constructed with, and its state.        *)
(***************************************************************************)
\* Market.__init__; True is the integer 1.
\* exchange_keys is the insertion order of the keys of the exchanges dict.
Market == [exchanges |-> Empty, exchange_keys |-> << >>, symbology |-> Empty, is_ready |-> 1]

Entry(kind, instrument, publisher, state) ==
    [kind |-> kind, instrument |-> instrument, publisher |-> publisher, state |-> state]

\* OrderBook(msg.instrument_id, msg.publisher_id), the book of lines 67 and 123.
EphemeralBook(instrument_id, publisher_id) ==
    Entry("full", instrument_id, publisher_id, OrderBook)

Registered(m, publisher_id, instrument_id) ==
    /\ publisher_id \in DOMAIN m.exchanges
    /\ instrument_id \in DOMAIN m.exchanges[publisher_id]

\* Line 57: the symbol when the instrument has one, else the instrument id.
InstrumentOf(m, instrument_id) ==
    IF instrument_id \in DOMAIN m.symbology THEN m.symbology[instrument_id]
    ELSE instrument_id

\* A new book that is full-depth whatever the flags of the add.
NewBook_AlwaysFull(m, msg) ==
    Entry("full", InstrumentOf(m, msg.instrument_id), msg.publisher_id, OrderBook)

\* Lines 59-62: the class of a new book follows F_TOB of the add.
NewBook(m, msg) ==
    IF HasFlag(msg.flags, F_TOB)
    THEN Entry("tob", InstrumentOf(m, msg.instrument_id), msg.publisher_id,
               TopOfBookOrderBook)
    ELSE Entry("full", InstrumentOf(m, msg.instrument_id), msg.publisher_id, OrderBook)

\* Lines 44-45: an add of an unknown publisher creates its dictionary.
with_exchange(m, msg) ==
    IF msg.publisher_id \notin DOMAIN m.exchanges /\ msg.action = "A"
    THEN [m EXCEPT !.exchanges = (msg.publisher_id :> Empty) @@ @,
                   !.exchange_keys = Append(@, msg.publisher_id)]
    ELSE m

\* A lookup that registers a book for a record of any action.
with_book_AnyAction(m, msg) ==
    IF /\ msg.publisher_id \in DOMAIN m.exchanges
       /\ msg.instrument_id \notin DOMAIN m.exchanges[msg.publisher_id]
    THEN [m EXCEPT !.exchanges[msg.publisher_id] = (msg.instrument_id :> NewBook(m, msg)) @@ @]
    ELSE m

\* Lines 48-64: an add of an unknown instrument registers a new book.
with_book(m, msg) ==
    IF /\ msg.publisher_id \in DOMAIN m.exchanges
       /\ msg.instrument_id \notin DOMAIN m.exchanges[msg.publisher_id]
       /\ msg.action = "A"
    THEN [m EXCEPT !.exchanges[msg.publisher_id] = (msg.instrument_id :> NewBook(m, msg)) @@ @]
    ELSE m

\* The market as Market._get_order_book leaves it.
get_order_book_market(m, msg) == with_book(with_exchange(m, msg), msg)

\* Market.get_order_book, and the book Market._get_order_book returns once the
\* market is as it leaves it.
get_order_book(m, instrument_id, publisher_id) ==
    IF Registered(m, publisher_id, instrument_id)
    THEN m.exchanges[publisher_id][instrument_id]
    ELSE EphemeralBook(instrument_id, publisher_id)

\* book.apply(msg) of either class, on the state of an entry.
entry_applied(e, r) == [b |-> [e EXCEPT !.state = r.b], raised |-> r.raised]

entry_apply(e, msg) ==
    entry_applied(e, IF e.kind = "tob" THEN tob_apply(e.state, msg)
                     ELSE apply(e.state, msg))

entry_bbo(e) == IF e.kind = "tob" THEN tob_bbo(e.state) ELSE bbo(e.state)

\* The book of the entry without the nodes nothing refers to any more.
entry_compact(e) == IF e.kind = "tob" THEN e ELSE [e EXCEPT !.state = Compact(@)]

\* Market.apply that sets is_ready before the book's apply can raise.
market_applied_ReadyFirst(m, msg, r) ==
    IF ~Registered(m, msg.publisher_id, msg.instrument_id)
    THEN [b |-> [m EXCEPT !.is_ready = IF HasFlag(msg.flags, F_LAST) THEN F_LAST ELSE 0],
          raised |-> r.raised]
    ELSE [b |-> [m EXCEPT !.exchanges[msg.publisher_id][msg.instrument_id] =
                              entry_compact(r.b),
                          !.is_ready = IF HasFlag(msg.flags, F_LAST) THEN F_LAST ELSE 0],
          raised |-> r.raised]

\* Market.apply that keeps what the call left for every instrument of the
\* publisher.
market_applied_WholeExchange(m, msg, r) ==
    IF ~Registered(m, msg.publisher_id, msg.instrument_id)
    THEN IF r.raised THEN Raise(m)
         ELSE Ok([m EXCEPT !.is_ready = IF HasFlag(msg.flags, F_LAST) THEN F_LAST ELSE 0])
    ELSE [b |-> [m EXCEPT !.exchanges[msg.publisher_id] =
                              [i \in DOMAIN @ |-> entry_compact(r.b)],
                          !.is_ready = IF r.raised THEN @
                                       ELSE IF HasFlag(msg.flags, F_LAST) THEN F_LAST ELSE 0],
          raised |-> r.raised]

\* Lines 143-146: what the call on the routed book left is kept when the book
\* is registered, and is_ready is set when the call returned.
market_applied(m, msg, r) ==
    IF ~Registered(m, msg.publisher_id, msg.instrument_id)
    THEN IF r.raised THEN Raise(m)
         ELSE Ok([m EXCEPT !.is_ready = IF HasFlag(msg.flags, F_LAST) THEN F_LAST ELSE 0])
    ELSE IF r.raised
    THEN Raise([m EXCEPT !.exchanges[msg.publisher_id][msg.instrument_id] =
                              entry_compact(r.b)])
    ELSE Ok([m EXCEPT !.exchanges[msg.publisher_id][msg.instrument_id] =
                           entry_compact(r.b),
                      !.is_ready = IF HasFlag(msg.flags, F_LAST) THEN F_LAST ELSE 0])

\* Lines 140-146, the market being as _get_order_book left it.
market_routed(m, msg) ==
    market_applied(m, msg,
                   entry_apply(get_order_book(m, msg.instrument_id, msg.publisher_id), msg))

\* Market.apply on a record: an MBO record, a symbol mapping, a system record
\* or an object of another type.
market_apply(m, rec) ==
    CASE rec.type = "SymbolMappingMsg" ->
             Ok([m EXCEPT !.symbology = (rec.instrument_id :> rec.stype_out_symbol) @@ @])
      [] rec.type = "MBOMsg" ->
             market_routed(get_order_book_market(m, Message(rec.msg)), Message(rec.msg))
      [] rec.type = "SystemMsg" -> Ok(m)
      [] OTHER -> Raise(m)

\* Truth of a value used as a condition: None, 0 and 0.0 are false.
Truthy(x) == x # NoPrice /\ x # 0

\* Lines 92-97 and 100-105: the running best against one book's quote.
fold_bid(best, quote) ==
    IF Truthy(best.price) /\ Truthy(quote.price)
    THEN IF best.price < quote.price THEN quote ELSE best
    ELSE IF Truthy(quote.price) THEN quote ELSE best

fold_offer(best, quote) ==
    IF Truthy(best.price) /\ Truthy(quote.price)
    THEN IF best.price > quote.price THEN quote ELSE best
    ELSE IF Truthy(quote.price) THEN quote ELSE best

\* Lines 84-107: the loop over self.exchanges, pubs being its iteration order.
RECURSIVE bbo_loop(_, _, _, _)
bbo_loop(m, instrument_id, pubs, best) ==
    IF pubs = << >> THEN best
    ELSE bbo_loop(m, instrument_id, Tail(pubs),
                  [best_bid |-> fold_bid(best.best_bid,
                       entry_bbo(get_order_book(m, instrument_id, Head(pubs))).best_bid),
                   best_offer |-> fold_offer(best.best_offer,
                       entry_bbo(get_order_book(m, instrument_id, Head(pubs))).best_offer)])

\* Market.bbo; publisher_id None is NoPublisher.
market_bbo(m, instrument_id, publisher_id) ==
    IF publisher_id # NoPublisher /\ publisher_id # 0
    THEN entry_bbo(get_order_book(m, instrument_id, publisher_id))
    ELSE bbo_loop(m, instrument_id, m.exchange_keys,
                  [best_bid |-> BestBidOffer(0, NoPrice),
                   best_offer |-> BestBidOffer(0, NoPrice)])

(***************************************************************************)
(* The state machine: one full-depth book, fed one record per step.        *)
(***************************************************************************)
VARIABLES book, feed, zero_modifies, market, mid_pair, first_add

\* No add has been passed for any (publisher, instrument).
NoFirstAdd == [k \in {} |-> FALSE]

vars == <<book, feed, zero_modifies, market, mid_pair, first_add>>

\* The call takes the last branch of _modify (lines 147-151) with msg.size 0:
\* remove() then takes the order's whole size and unlinks the node.
ShrinksToZero(b, msg) ==
    /\ msg.action = "M"
    /\ ~HasFlag(msg.flags, F_TOB)
    /\ msg.order_id \in DOMAIN b.orders
    /\ LET node == b.heap[b.orders[msg.order_id]]
       IN /\ node.price \in DOMAIN side_dict(b, node.side)
          /\ node.side = msg.side
          /\ node.price = msg.price
          /\ msg.size = 0

\* The bounds of the exploration: the live nodes fit the heap, and at most
\* MaxZeroModify calls have shrunk an order to size 0 through _modify.
WithinBounds(b, f, n) ==
    /\ Len(b.heap) <= MaxNodes(f)
    /\ n <= MaxZeroModify

\* book.apply(msg), as Market.apply calls it on the message built from a record;
\* what the call leaves behind is the next state whether or not it raised.
Apply(b, msg) == Compact(apply(b, msg).b)

\* The call leaves book b behind, n counting the modifies to size 0 so far.
Leaves(b, n) ==
    /\ WithinBounds(b, feed, n)
    /\ book' = b
    /\ zero_modifies' = n
    /\ UNCHANGED <<feed, market, mid_pair, first_add>>

Call(raw) ==
    Leaves(Apply(book, Message(raw)),
           zero_modifies + (IF ShrinksToZero(book, Message(raw)) THEN 1 ELSE 0))

Init ==
    /\ book = OrderBook
    /\ feed \in Feeds
    /\ zero_modifies = 0
    /\ market = Market
    /\ mid_pair = {}
    /\ first_add = NoFirstAdd

Add == \E raw \in MBOMsgs(feed) : raw.action = "A" /\ Call(raw)
Cancel == \E raw \in MBOMsgs(feed) : raw.action = "C" /\ Call(raw)
Modify == \E raw \in MBOMsgs(feed) : raw.action = "M" /\ Call(raw)
Clear == \E raw \in MBOMsgs(feed) : raw.action = "R" /\ Call(raw)
NoOp == \E raw \in MBOMsgs(feed) : raw.action \in {"T", "F", "N"} /\ Call(raw)
Unknown == \E raw \in MBOMsgs(feed) : raw.action = "X" /\ Call(raw)

Next == Add \/ Cancel \/ Modify \/ Clear \/ NoOp \/ Unknown

Spec == Init /\ [][Next]_vars

(***************************************************************************)
(* The state machine of a Market, fed one record per step.  mid_pair is    *)
(* history: the (publisher, instrument) keys of the top-of-book books      *)
(* whose latest add came without F_LAST.                                   *)
(***************************************************************************)
Publishers == 0..MaxPublisher
Instruments == 1..MaxInstrument
Symbols == {"X"}
AllFlags == {0, F_LAST, F_TOB, F_TOB + F_LAST}

\* The MBO records of the market feed, for the first instrument.  Publisher 0
\* is a top-of-book feed but for one stray add; the highest publisher sends
\* full-depth and top-of-book records alike.
MarketMBO(actions, sides, prices, sizes, flagsets, pubs) ==
    [action : actions, side : sides, order_id : 1..MarketOrderId, price : prices,
     size : sizes, publisher_id : pubs, instrument_id : {TheInstrument},
     ts_event : {0}, ts_recv : Timestamps, flags : flagsets]

TobFeed(pubs) ==
    MarketMBO({"A"}, {"A", "B"}, {FIXED_PRICE_SCALE}, 0..MarketSize,
              {F_TOB, F_TOB + F_LAST}, pubs)
      \cup MarketMBO({"A"}, {"A", "B"}, {UNDEF_PRICE}, {0}, {F_TOB, F_TOB + F_LAST}, pubs)
      \cup MarketMBO({"A"}, {"N"}, {FIXED_PRICE_SCALE}, {1}, {F_TOB + F_LAST}, pubs)

FullFeed(pubs) ==
    MarketMBO({"A"}, {"A", "B"}, {0, FIXED_PRICE_SCALE}, {1}, {0, F_LAST}, pubs)
      \cup MarketMBO({"A"}, {"N"}, {FIXED_PRICE_SCALE}, {1}, {F_LAST}, pubs)
      \cup MarketMBO({"M"}, {"A", "B"}, {0, FIXED_PRICE_SCALE}, 0..MarketSize,
                     {F_LAST}, pubs)

AnyFeed(pubs) ==
    MarketMBO({"C"}, {"N"}, {UNDEF_PRICE}, 0..MarketSize, {F_LAST}, pubs)
      \cup MarketMBO({"R", "T", "F", "N", "X"}, {"N"}, {UNDEF_PRICE}, {0},
                     {0, F_LAST, F_TOB + F_LAST}, pubs)

\* The records for the instruments above the first: a blank top-of-book add,
\* a clear and a cancel.
SideFeed(pubs) ==
    {[raw EXCEPT !.instrument_id = i] :
        raw \in MarketMBO({"A"}, {"B"}, {UNDEF_PRICE}, {0}, {F_TOB + F_LAST}, pubs)
                  \cup MarketMBO({"R", "C"}, {"N"}, {UNDEF_PRICE}, {0}, {F_LAST}, pubs),
        i \in Instruments \ {TheInstrument}}

\* An add without F_TOB and without a side, as a top-of-book publisher may be
\* sent by mistake.
StrayFeed(pubs) == MarketMBO({"A"}, {"N"}, {FIXED_PRICE_SCALE}, {1}, {F_LAST}, pubs)

MarketMBOMsgs ==
    TobFeed(Publishers) \cup FullFeed({MaxPublisher}) \cup AnyFeed(Publishers)
      \cup SideFeed({MaxPublisher}) \cup StrayFeed(Publishers)

MBOMsg(raw) == [type |-> "MBOMsg", msg |-> raw]
SymbolMappingMsg(instrument_id, symbol) ==
    [type |-> "SymbolMappingMsg", instrument_id |-> instrument_id,
     stype_out_symbol |-> symbol]
SystemMsg == [type |-> "SystemMsg"]
OtherObject == [type |-> "str"]

\* The book a record is routed to, once _get_order_book has run.
Routed(m, msg) ==
    get_order_book(get_order_book_market(m, msg), msg.instrument_id, msg.publisher_id)

\* mid_pair after a record: an add a top-of-book book applied enters its key
\* when it lacks F_LAST and takes it out when it carries F_LAST.
MidPairAfter(m, msg, mp) ==
    IF /\ msg.action = "A"
       /\ HasFlag(msg.flags, F_TOB)
       /\ Routed(m, msg).kind = "tob"
    THEN IF HasFlag(msg.flags, F_LAST)
         THEN mp \ {<<msg.publisher_id, msg.instrument_id>>}
         ELSE mp \cup {<<msg.publisher_id, msg.instrument_id>>}
    ELSE mp

\* The registered books of a market, by (publisher, instrument).
Keys(m) ==
    {k \in Publishers \X Instruments : Registered(m, k[1], k[2])}
BookAt(m, k) == m.exchanges[k[1]][k[2]]

MarketWithinBounds(m, n) ==
    /\ \A k \in Keys(m) :
           BookAt(m, k).kind = "full" => Len(BookAt(m, k).state.heap) <= MarketNodes
    /\ n <= MaxZeroModify

\* first_add after a record: the first add passed to Market.apply for a
\* (publisher, instrument) enters the pair with whether it carried F_TOB.
FirstAddAfter(msg, fa) ==
    IF msg.action = "A" /\ <<msg.publisher_id, msg.instrument_id>> \notin DOMAIN fa
    THEN (<<msg.publisher_id, msg.instrument_id>> :> HasFlag(msg.flags, F_TOB)) @@ fa
    ELSE fa

MarketLeaves(m, n, mp, fa) ==
    /\ MarketWithinBounds(m, n)
    /\ market' = m
    /\ zero_modifies' = n
    /\ mid_pair' = mp
    /\ first_add' = fa
    /\ UNCHANGED <<book, feed>>

MarketCall(raw) ==
    MarketLeaves(market_apply(market, MBOMsg(raw)).b,
                 zero_modifies
                   + (IF /\ Routed(market, Message(raw)).kind = "full"
                         /\ ShrinksToZero(Routed(market, Message(raw)).state, Message(raw))
                      THEN 1 ELSE 0),
                 MidPairAfter(market, Message(raw), mid_pair),
                 FirstAddAfter(Message(raw), first_add))

MarketInit ==
    /\ book = OrderBook
    /\ feed = "wide"
    /\ zero_modifies = 0
    /\ market = Market
    /\ mid_pair = {}
    /\ first_add = NoFirstAdd

MarketAdd == \E raw \in MarketMBOMsgs : raw.action = "A" /\ MarketCall(raw)
MarketCancel == \E raw \in MarketMBOMsgs : raw.action = "C" /\ MarketCall(raw)
MarketModify == \E raw \in MarketMBOMsgs : raw.action = "M" /\ MarketCall(raw)
MarketClear == \E raw \in MarketMBOMsgs : raw.action = "R" /\ MarketCall(raw)
MarketNoOp == \E raw \in MarketMBOMsgs : raw.action \in {"T", "F", "N"} /\ MarketCall(raw)
MarketUnknown == \E raw \in MarketMBOMsgs : raw.action = "X" /\ MarketCall(raw)
\* Symbols are mapped for the first instrument only.
SetSymbology ==
    \E i \in {TheInstrument}, y \in Symbols :
        MarketLeaves(market_apply(market, SymbolMappingMsg(i, y)).b, zero_modifies, mid_pair,
                     first_add)
Heartbeat == MarketLeaves(market_apply(market, SystemMsg).b, zero_modifies, mid_pair,
                     first_add)
Unsupported == MarketLeaves(market_apply(market, OtherObject).b, zero_modifies, mid_pair,
                     first_add)

MarketNext ==
    \/ MarketAdd \/ MarketCancel \/ MarketModify \/ MarketClear \/ MarketNoOp
    \/ MarketUnknown \/ SetSymbology \/ Heartbeat \/ Unsupported

MarketSpec == MarketInit /\ [][MarketNext]_vars

(***************************************************************************)
(* Reading a book.                                                         *)
(***************************************************************************)
\* The messages of a feed that reach a full-depth book's dispatch with action a.
MsgsOf(f, a) ==
    {Message(raw) : raw \in {r \in MBOMsgs(f) : r.action = a /\ ~HasFlag(r.flags, F_TOB)}}

\* The nodes met from `a' along next; a chain longer than the heap has a cycle
\* and is cut after one repetition.
RECURSIVE WalkFrom(_, _, _)
WalkFrom(heap, a, fuel) ==
    IF a = Null \/ fuel = 0 THEN << >>
    ELSE <<a>> \o WalkFrom(heap, heap[a].next, fuel - 1)

\* The nodes linked between head and tail of a level, head first.
Linked(b, lst) == WalkFrom(b.heap, lst.head, Len(b.heap) + 1)

Count(seq, x) == Cardinality({i \in DOMAIN seq : seq[i] = x})

RECURSIVE SumSizes(_, _)
SumSizes(heap, seq) ==
    IF seq = << >> THEN 0 ELSE heap[Head(seq)].size + SumSizes(heap, Tail(seq))

\* The (side, price) keys of the two side maps.
LevelKeys(b) ==
    {<<"B", p>> : p \in DOMAIN b.bids} \cup {<<"A", p>> : p \in DOMAIN b.offers}

LevelAt(b, key) == side_dict(b, key[1])[key[2]]

\* The node of an indexed order is linked in the queue at its price on its side.
Resting(b, id) ==
    /\ id \in DOMAIN b.orders
    /\ LET a == b.orders[id]
           n == b.heap[a]
       IN /\ <<n.side, n.price>> \in LevelKeys(b)
          /\ Count(Linked(b, LevelAt(b, <<n.side, n.price>>)), a) = 1

(***************************************************************************)
(* C1-C3: structural invariants.                                           *)
(***************************************************************************)
\* C1: every entry (id -> node) of the id index refers to a node that is linked
\* exactly once in the queue at node.price of the side map node.side selects,
\* and in no other queue.
C1_IndexedNodeLinkedOnce ==
    \A id \in DOMAIN book.orders :
        LET a == book.orders[id]
            n == book.heap[a]
        IN /\ <<n.side, n.price>> \in LevelKeys(book)
           /\ \A key \in LevelKeys(book) :
                  Count(Linked(book, LevelAt(book, key)), a)
                      = IF key = <<n.side, n.price>> THEN 1 ELSE 0

\* C2: no empty price level remains in bids or offers: every level present has
\* num_orders > 0 and at least one linked node.
C2_NoEmptyLevel ==
    \A key \in LevelKeys(book) :
        /\ LevelAt(book, key).num_orders > 0
        /\ Linked(book, LevelAt(book, key)) # << >>

\* C3: for every level, num_orders is the number of linked nodes, depth is the
\* sum of their sizes, depth = 0 exactly when num_orders = 0, and num_orders is
\* never negative.
C3_CachedAggregates ==
    \A key \in LevelKeys(book) :
        LET l == LevelAt(book, key)
            w == Linked(book, l)
        IN /\ l.num_orders = Len(w)
           /\ l.depth = SumSizes(book.heap, w)
           /\ (l.depth = 0) <=> (l.num_orders = 0)
           /\ l.num_orders >= 0

(***************************************************************************)
(* C4: best bid and offer against the resting orders.                      *)
(***************************************************************************)
\* The nodes of the orders the book holds on a side.
RestingOn(b, side) ==
    {b.orders[id] : id \in {i \in DOMAIN b.orders : b.heap[b.orders[i]].side = side}}

RECURSIVE SumOver(_, _)
SumOver(heap, S) ==
    IF S = {} THEN 0
    ELSE LET a == CHOOSE x \in S : TRUE
         IN heap[a].size + SumOver(heap, S \ {a})

\* Best price and aggregate size over the resting orders of a side.
ReferenceBest(b, side) ==
    LET nodes == RestingOn(b, side)
        prices == {b.heap[a].price : a \in nodes}
        best == IF side = "B" THEN MaxOf(prices) ELSE MinOf(prices)
    IN IF nodes = {} THEN BestBidOffer(0, NoPrice)
       ELSE BestBidOffer(SumOver(b.heap, {a \in nodes : b.heap[a].price = best}), best)

\* C4: bbo() agrees with the reference: a side is empty (no price, size 0) iff
\* no order rests on it, otherwise its price is the best resting price (the
\* maximum bid, the minimum offer) and its size the sum of the sizes of the
\* orders resting at that price.
C4_BboMatchesReference ==
    /\ bbo(book).best_bid = ReferenceBest(book, "B")
    /\ bbo(book).best_offer = ReferenceBest(book, "A")

(***************************************************************************)
(* C5: the cancel law.                                                     *)
(***************************************************************************)
\* The Cancel of the whole of the order an Add message has placed.
CancelOf(m) == [m EXCEPT !.action = "C"]

\* C5: for every Add message m the book accepts, applying m and then a Cancel
\* with the same order_id and size = m.size gives back the book: the same
\* price keys, queues, node sizes, depth and num_orders, and the same id index;
\* only ts_last_update may differ.
C5_CancelLaw ==
    \A m \in MsgsOf(feed, "A") :
        LET r1 == apply(book, m)
            r2 == apply(r1.b, CancelOf(m))
        IN ~r1.raised =>
               /\ ~r2.raised
               /\ [Compact(r2.b) EXCEPT !.ts_last_update = book.ts_last_update] = book

(***************************************************************************)
(* C6: time priority inside a level.                                       *)
(***************************************************************************)
\* A node's address is its rank by age, so a queue in append order is a queue
\* of increasing addresses.
InAppendOrder(seq) == \A i, j \in DOMAIN seq : i < j => seq[i] < seq[j]

\* C6: in every level the head-to-tail order of the linked nodes is the order
\* in which they were appended, the walk from head ends at tail, and an order
\* an Add has just appended is the last node of its level's queue, behind the
\* nodes that were linked there before.
C6_TimePriority ==
    /\ \A key \in LevelKeys(book) :
           LET l == LevelAt(book, key)
               w == Linked(book, l)
           IN /\ InAppendOrder(w)
              /\ l.tail = IF w = << >> THEN Null ELSE w[Len(w)]
    /\ \A m \in MsgsOf(feed, "A") :
           LET r == apply(book, m)
               key == <<m.side, m.price>>
               before == IF key \in LevelKeys(book)
                         THEN Linked(book, LevelAt(book, key)) ELSE << >>
           IN ~r.raised =>
                  Linked(r.b, LevelAt(r.b, key)) = Append(before, r.b.orders[m.order_id])

(***************************************************************************)
(* C7-C10: what a Cancel and a Modify do to a resting order.               *)
(***************************************************************************)
NodeOf(b, id) == b.heap[b.orders[id]]
KeyOf(b, id) == <<NodeOf(b, id).side, NodeOf(b, id).price>>
LastOf(seq) == IF seq = << >> THEN Null ELSE seq[Len(seq)]

\* A Cancel that takes less than the size of an order of the id index.
PartialCancel(b, c) ==
    /\ c.order_id \in DOMAIN b.orders
    /\ c.size < NodeOf(b, c.order_id).size

\* What a partial Cancel c is to do to book b: return, leave the queue of the
\* order's level as it was, take c.size off the order and off the level's
\* depth, and touch nothing else.
KeepsPlace(b, c) ==
    LET a == b.orders[c.order_id]
        n == b.heap[a]
        key == KeyOf(b, c.order_id)
        r == apply(b, c)
    IN /\ ~r.raised
       /\ LevelKeys(r.b) = LevelKeys(b)
       /\ Linked(r.b, LevelAt(r.b, key)) = Linked(b, LevelAt(b, key))
       /\ LevelAt(r.b, key) = [LevelAt(b, key) EXCEPT !.depth = @ - c.size]
       /\ r.b.heap[a].size = n.size - c.size
       /\ r.b.heap[a].prev = n.prev /\ r.b.heap[a].next = n.next
       /\ r.b.orders = b.orders
       /\ \A k \in LevelKeys(b) \ {key} : LevelAt(r.b, k) = LevelAt(b, k)
       /\ Len(r.b.heap) = Len(b.heap)
       /\ \A x \in DOMAIN b.heap \ {a} : r.b.heap[x] = b.heap[x]

\* C7: a Cancel of a resting order (an order of the id index) with msg.size <
\* its size returns, leaves the queue of its level as it was (same nodes, same
\* order, same num_orders), takes msg.size off the order's size and off the
\* level's depth, keeps the order in the id index, and changes no other level
\* and no other order.
C7_PartialCancelKeepsPlace ==
    \A c \in MsgsOf(feed, "C") : PartialCancel(book, c) => KeepsPlace(book, c)

\* C7, narrowed to the orders whose node is still linked in the queue that the
\* side map holds at their price: for those the partial Cancel keeps its place.
C7_LinkedPartialCancelKeepsPlace ==
    \A c \in MsgsOf(feed, "C") :
        (PartialCancel(book, c) /\ Resting(book, c.order_id)) => KeepsPlace(book, c)

\* A partial cancel of a positive amount acts on an order that has a
\* predecessor and a successor in its queue, and leaves it between them.
C7_Witness ==
    \E c \in MsgsOf(feed, "C") :
        /\ PartialCancel(book, c)
        /\ Resting(book, c.order_id)
        /\ c.size > 0
        /\ NodeOf(book, c.order_id).prev # Null
        /\ NodeOf(book, c.order_id).next # Null
        /\ LET a == book.orders[c.order_id]
               after == apply(book, c).b
           IN /\ after.heap[a].size = NodeOf(book, c.order_id).size - c.size
              /\ Len(Linked(after, LevelAt(after, KeyOf(book, c.order_id)))) = 3

\* A Modify of a resting order that names its side.
ModifyOf(b, m) ==
    /\ Resting(b, m.order_id)
    /\ m.side = NodeOf(b, m.order_id).side

\* C8: a Modify of a resting order with the same side, the same price and
\* msg.size < its size (any msg.size >= 0) returns and leaves the order resting
\* in its queue between the same predecessor and successor, with size msg.size,
\* the level's depth lowered by the difference.
C8_ModifyDownKeepsPlace ==
    \A m \in MsgsOf(feed, "M") :
        (/\ ModifyOf(book, m)
         /\ m.price = NodeOf(book, m.order_id).price
         /\ m.size < NodeOf(book, m.order_id).size) =>
            LET a == book.orders[m.order_id]
                n == book.heap[a]
                key == KeyOf(book, m.order_id)
                r == apply(book, m)
            IN /\ ~r.raised
               /\ Resting(r.b, m.order_id)
               /\ r.b.orders[m.order_id] = a
               /\ r.b.heap[a].prev = n.prev /\ r.b.heap[a].next = n.next
               /\ r.b.heap[a].size = m.size
               /\ LevelAt(r.b, key).depth = LevelAt(book, key).depth - (n.size - m.size)

\* C9: a Modify of a resting order with the same side, the same price and
\* msg.size > its size returns without error, and afterwards the order is the
\* tail of its level's queue with size msg.size, the level's depth grown by the
\* difference.
C9_ModifyUpToTail ==
    \A m \in MsgsOf(feed, "M") :
        (/\ ModifyOf(book, m)
         /\ m.price = NodeOf(book, m.order_id).price
         /\ m.size > NodeOf(book, m.order_id).size) =>
            LET n == NodeOf(book, m.order_id)
                key == KeyOf(book, m.order_id)
                r == apply(book, m)
            IN /\ ~r.raised
               /\ Resting(r.b, m.order_id)
               /\ LevelAt(r.b, key).tail = r.b.orders[m.order_id]
               /\ LastOf(Linked(r.b, LevelAt(r.b, key))) = r.b.orders[m.order_id]
               /\ NodeOf(r.b, m.order_id).size = m.size
               /\ LevelAt(r.b, key).depth = LevelAt(book, key).depth + (m.size - n.size)

\* C10: a Modify of a resting order to another price is a cancel-and-replace of
\* the whole remaining size whatever msg.size is: it returns, the order is no
\* longer linked at the old price (the old level is gone if that emptied it),
\* and it is the tail of the queue at msg.price on the same side with size
\* msg.size, registered once in the id index.
C10_ModifyPriceReplaces ==
    \A m \in MsgsOf(feed, "M") :
        (/\ ModifyOf(book, m)
         /\ m.price # NodeOf(book, m.order_id).price
         /\ m.price # UNDEF_PRICE) =>
            LET a == book.orders[m.order_id]
                old == KeyOf(book, m.order_id)
                new == <<m.side, m.price>>
                r == apply(book, m)
            IN /\ ~r.raised
               /\ old \in LevelKeys(r.b) =>
                      /\ Linked(r.b, LevelAt(r.b, old)) # << >>
                      /\ \A x \in DOMAIN Linked(r.b, LevelAt(r.b, old)) :
                             r.b.heap[Linked(r.b, LevelAt(r.b, old))[x]].order_id # m.order_id
               /\ Resting(r.b, m.order_id)
               /\ KeyOf(r.b, m.order_id) = new
               /\ LevelAt(r.b, new).tail = r.b.orders[m.order_id]
               /\ LastOf(Linked(r.b, LevelAt(r.b, new))) = r.b.orders[m.order_id]
               /\ NodeOf(r.b, m.order_id).size = m.size

(***************************************************************************)
(* C11-C20: the Market, the no-op actions and the top-of-book book.        *)
(***************************************************************************)
\* The records of the market feed addressed to the book at key k.
RecordsTo(k) ==
    {raw \in MarketMBOMsgs : raw.publisher_id = k[1] /\ raw.instrument_id = k[2]}

FullKeys(m) == {k \in Keys(m) : BookAt(m, k).kind = "full"}
TobKeys(m) == {k \in Keys(m) : BookAt(m, k).kind = "tob"}

Records ==
    {MBOMsg(raw) : raw \in MarketMBOMsgs}
      \cup {SymbolMappingMsg(i, y) : i \in Instruments, y \in Symbols}
      \cup {SystemMsg, OtherObject}

\* C12: whenever Market.apply raises, the market is as it was before the call:
\* the registered books, every book's state, symbology and is_ready.
C12_ErrorLeavesState ==
    \A rec \in Records :
        market_apply(market, rec).raised => market_apply(market, rec).b = market

\* C14: after an MBO record that Market.apply applies without error is_ready is
\* true exactly when the record carries F_LAST; a record that raises, a symbol
\* mapping and a system record leave is_ready as it was.
C14_ReadyFollowsLast ==
    /\ \A raw \in MarketMBOMsgs :
           LET r == market_apply(market, MBOMsg(raw))
           IN IF r.raised THEN r.b.is_ready = market.is_ready
              ELSE Truthy(r.b.is_ready) <=> HasFlag(raw.flags, F_LAST)
    /\ \A rec \in Records :
           rec.type \in {"SymbolMappingMsg", "SystemMsg"} =>
               /\ ~market_apply(market, rec).raised
               /\ market_apply(market, rec).b.is_ready = market.is_ready

\* is_ready is false, and a record with F_LAST is applied and makes it true;
\* another raises and leaves it false.
C14_Witness ==
    /\ ~Truthy(market.is_ready)
    /\ \E raw \in MarketMBOMsgs :
           /\ HasFlag(raw.flags, F_LAST)
           /\ ~market_apply(market, MBOMsg(raw)).raised
           /\ Truthy(market_apply(market, MBOMsg(raw)).b.is_ready)
    /\ \E raw \in MarketMBOMsgs :
           /\ HasFlag(raw.flags, F_LAST)
           /\ market_apply(market, MBOMsg(raw)).raised

\* C15: whenever is_ready is true, no registered top-of-book book is mid-pair:
\* the latest add applied to each carried F_LAST.
C15_ReadyMeansNoPending ==
    Truthy(market.is_ready) => mid_pair = {}

\* The top-of-book adds of the feed that name a side of the book.
TobAdds == {Message(raw) : raw \in {r \in TobFeed(Publishers) : r.side \in {"A", "B"}}}

Slot(t, side) == IF side = "B" THEN t.bid ELSE t.offer
Opposite(side) == IF side = "B" THEN "A" ELSE "B"

\* What an add is to leave in its slot: nothing for a blank message, else one
\* node with the message's fields.
Quoted(msg) ==
    IF msg.size = 0 /\ msg.price = UNDEF_PRICE THEN {}
    ELSE {[order_id |-> msg.order_id, price |-> msg.price, size |-> msg.size,
           publisher_id |-> msg.publisher_id, instrument_id |-> msg.instrument_id,
           side |-> msg.side, ts_recv |-> msg.ts_recv, prev |-> Null, next |-> Null]}

\* C16: an add with F_TOB on side s returns and leaves in slot s the message's
\* price and size (nothing for a blank message); without F_LAST the opposite
\* slot is empty afterwards, with F_LAST it is what it was.  So a bid without
\* F_LAST followed by an offer with F_LAST leaves both slots with the two
\* records' values.
C16_PairingRule ==
    \A k \in TobKeys(market) :
        LET t == BookAt(market, k).state
        IN /\ \A m \in TobAdds :
                  LET r == tob_apply(t, m)
                  IN /\ ~r.raised
                     /\ Slot(r.b, m.side) = Quoted(m)
                     /\ Slot(r.b, Opposite(m.side)) =
                            IF HasFlag(m.flags, F_LAST) THEN Slot(t, Opposite(m.side))
                            ELSE {}
           /\ \A m1, m2 \in TobAdds :
                  (/\ m1.side = "B" /\ ~HasFlag(m1.flags, F_LAST)
                   /\ m2.side = "A" /\ HasFlag(m2.flags, F_LAST)) =>
                      LET r == tob_apply(tob_apply(t, m1).b, m2)
                      IN ~r.raised /\ r.b.bid = Quoted(m1) /\ r.b.offer = Quoted(m2)

\* A registered top-of-book book holds a bid and an offer, and an add with
\* F_LAST replaces one and keeps the other.
C16_Witness ==
    \E k \in TobKeys(market) :
        LET t == BookAt(market, k).state
        IN /\ t.bid # {} /\ t.offer # {}
           /\ \E m \in TobAdds :
                  /\ HasFlag(m.flags, F_LAST)
                  /\ m.side = "B"
                  /\ tob_apply(t, m).b.bid # t.bid
                  /\ tob_apply(t, m).b.offer = t.offer

\* C17: in a top-of-book book the bid slot is empty or holds a node of side B,
\* and the offer slot is empty or holds a node of side A.
C17_SlotSides ==
    \A k \in TobKeys(market) :
        /\ \A n \in BookAt(market, k).state.bid : n.side = "B"
        /\ \A n \in BookAt(market, k).state.offer : n.side = "A"

\* The messages of the market feed, of every action.
MarketMsgs == {Message(raw) : raw \in MarketMBOMsgs}

RECURSIVE QuotesOf(_, _, _, _)
QuotesOf(m, instrument_id, pubs, side) ==
    IF pubs = << >> THEN << >>
    ELSE LET q == entry_bbo(get_order_book(m, instrument_id, Head(pubs)))
         IN <<IF side = "B" THEN q.best_bid ELSE q.best_offer>>
              \o QuotesOf(m, instrument_id, Tail(pubs), side)

\* The first of the non-empty quotes with the best price: the highest for bids,
\* the lowest for offers; the empty quote when every quote is empty.
BestOf(quotes, side) ==
    LET live == {i \in DOMAIN quotes : quotes[i].price # NoPrice}
        best(i) == \A j \in live : IF side = "B" THEN quotes[j].price <= quotes[i].price
                                   ELSE quotes[j].price >= quotes[i].price
    IN IF live = {} THEN BestBidOffer(0, NoPrice)
       ELSE quotes[CHOOSE i \in live : best(i) /\ \A j \in live : best(j) => i <= j]

QueryInstruments == 1..(MaxInstrument + 1)

\* C19: Market.bbo(instrument) without a publisher returns as best bid the
\* per-book best bid of highest price among the books of the instrument whose
\* bid side is not empty, as best offer the per-book best offer of lowest price
\* among those whose offer side is not empty, the first iterated on equal
\* prices, and an empty side only when every book is empty on that side.
C19_ConsolidatedBbo ==
    \A i \in QueryInstruments :
        /\ market_bbo(market, i, NoPublisher).best_bid =
               BestOf(QuotesOf(market, i, market.exchange_keys, "B"), "B")
        /\ market_bbo(market, i, NoPublisher).best_offer =
               BestOf(QuotesOf(market, i, market.exchange_keys, "A"), "A")

QueryPublishers == 0..(MaxPublisher + 1)

\* C20: Market.bbo(instrument, publisher) with a publisher id supplied is the
\* bbo of the book registered for the pair, or the empty pair when none is.
C20_PerPublisherBbo ==
    \A i \in QueryInstruments, p \in QueryPublishers :
        market_bbo(market, i, p) =
            IF Registered(market, p, i) THEN entry_bbo(BookAt(market, <<p, i>>))
            ELSE [best_bid |-> BestBidOffer(0, NoPrice),
                  best_offer |-> BestBidOffer(0, NoPrice)]

(***************************************************************************)
(* C21-C24: registration, book variant, duplicate ids, routing.            *)
(***************************************************************************)
KeyOfRecord(raw) == <<raw.publisher_id, raw.instrument_id>>

\* C21: a book is registered for a (publisher, instrument) exactly when an MBO
\* record of action A for the pair has been passed to Market.apply; a record of
\* another action, a symbol mapping, a system record and an unsupported object
\* register nothing, and a registered book stays registered as the same book:
\* a record for its pair acts on it, R included, and its class, instrument and
\* publisher stay.
C21_RegisteredIffAdded ==
    /\ Keys(market) = DOMAIN first_add
    /\ \A rec \in Records :
           LET r == market_apply(market, rec)
           IN /\ (rec.type # "MBOMsg" \/ rec.msg.action # "A") => Keys(r.b) = Keys(market)
              /\ \A k \in Keys(market) :
                     /\ k \in Keys(r.b)
                     /\ BookAt(r.b, k).kind = BookAt(market, k).kind
                     /\ BookAt(r.b, k).instrument = BookAt(market, k).instrument
                     /\ BookAt(r.b, k).publisher = BookAt(market, k).publisher
                     /\ (rec.type = "MBOMsg" /\ KeyOfRecord(rec.msg) = k) =>
                            BookAt(r.b, k) =
                                entry_compact(entry_apply(BookAt(market, k),
                                                          Message(rec.msg)).b)

\* One pair has a book holding a quote or an order and the other pair has
\* none, although a record that is not an add is accepted for it.
C21_Witness ==
    \E k \in Keys(market), u \in (Publishers \X Instruments) \ Keys(market) :
        /\ entry_bbo(BookAt(market, k)).best_bid.price # NoPrice
        /\ \E raw \in RecordsTo(u) :
               /\ raw.action = "R"
               /\ ~market_apply(market, MBOMsg(raw)).raised
               /\ Keys(market_apply(market, MBOMsg(raw)).b) = Keys(market)
        /\ \E raw \in RecordsTo(k) :
               /\ raw.action = "R"
               /\ ~market_apply(market, MBOMsg(raw)).raised
               /\ entry_bbo(BookAt(market_apply(market, MBOMsg(raw)).b, k)).best_bid.price
                      = NoPrice

\* C22: a registered book is a TopOfBookOrderBook exactly when the first add
\* passed for its pair carried F_TOB, no record changes its class, and an add
\* whose F_TOB bit disagrees with the class raises and leaves the book as it was.
C22_VariantFixed ==
    \A k \in Keys(market) :
        /\ k \in DOMAIN first_add
        /\ (BookAt(market, k).kind = "tob") <=> first_add[k]
        /\ \A raw \in RecordsTo(k) :
               LET r == market_apply(market, MBOMsg(raw))
               IN /\ BookAt(r.b, k).kind = BookAt(market, k).kind
                  /\ (/\ raw.action = "A"
                      /\ HasFlag(raw.flags, F_TOB) # (BookAt(market, k).kind = "tob")) =>
                         r.raised /\ BookAt(r.b, k) = BookAt(market, k)

\* A top-of-book book with a quote and a full-depth book with an order are
\* registered, and each is sent an add of the other kind.
C22_Witness ==
    \E k1, k2 \in Keys(market) :
        /\ BookAt(market, k1).kind = "tob" /\ first_add[k1]
        /\ BookAt(market, k1).state.bid # {}
        /\ BookAt(market, k2).kind = "full" /\ ~first_add[k2]
        /\ BookAt(market, k2).state.orders # Empty
        /\ \E raw \in RecordsTo(k1) :
               /\ raw.action = "A" /\ ~HasFlag(raw.flags, F_TOB)
               /\ market_apply(market, MBOMsg(raw)).raised
        /\ \E raw \in RecordsTo(k2) :
               /\ raw.action = "A" /\ HasFlag(raw.flags, F_TOB)
               /\ market_apply(market, MBOMsg(raw)).raised

\* The nodes linked in the queues of a book, as (level key, position).
LinkedAt(b) ==
    {<<key, i>> : key \in LevelKeys(b), i \in 1..Len(b.heap)} \cap
    UNION {{<<key, i>> : i \in DOMAIN Linked(b, LevelAt(b, key))} : key \in LevelKeys(b)}

IdAt(b, at) == b.heap[Linked(b, LevelAt(b, at[1]))[at[2]]].order_id

C24_RoutingIsolation ==
    \A raw \in MarketMBOMsgs :
        LET r == market_apply(market, MBOMsg(raw))
        IN /\ r.b.symbology = market.symbology
           /\ Keys(r.b) \subseteq Keys(market) \cup {KeyOfRecord(raw)}
           /\ \A k \in Keys(market) \ {KeyOfRecord(raw)} :
                  k \in Keys(r.b) /\ BookAt(r.b, k) = BookAt(market, k)

\* Two books of one publisher and a book of another are registered, two of
\* them with a quote or an order, and a record changes one of them.
C24_Witness ==
    /\ \E k1, k2 \in Keys(market) : k1 # k2 /\ k1[1] = k2[1]
    /\ \E k1, k2 \in Keys(market) :
           /\ k1[1] # k2[1]
           /\ entry_bbo(BookAt(market, k1)).best_bid.price # NoPrice
           /\ entry_bbo(BookAt(market, k2)).best_bid.price # NoPrice
           /\ \E raw \in RecordsTo(k1) :
                  LET r == market_apply(market, MBOMsg(raw))
                  IN ~r.raised /\ BookAt(r.b, k1).state # BookAt(market, k1).state

====
